---- MODULE Spec2Model ----
(***************************************************************************)
(* Model of src/modules/utils.py: helper functions over an image library   *)
(* (cv2), an array library (np) and a holistic landmark detector (mp).     *)
(*                                                                         *)
(* Python values are records tagged with their type in field t.  An image  *)
(* array is a sequence of rows, each row a sequence of pixels, each pixel  *)
(* a sequence of three channel values.  Storage maps every path to what    *)
(* cv2.imread decodes from it: an image array, or None when the path does  *)
(* not decode as an image.                                                 *)
(***************************************************************************)
EXTENDS Integers, Sequences, FiniteSets, TLC

VARIABLES storage, call, ret, exc, reads, orig, depth,
          pc, cap, steps, nreads, frame

vars == <<storage, call, ret, exc, reads, orig, depth, pc, cap, steps, nreads, frame>>

imgVars == <<storage, call, ret, exc, reads, orig, depth>>
videoVars == <<pc, cap, steps, nreads, frame>>

(* ------------------------------ bounds --------------------------------- *)

MaxW == 3
MaxH == 2
MaxChain == 2
MaxFrames == 2

(* --------------------------- Python values ----------------------------- *)

NoneVal == [t |-> "NoneType"]
StrVal(s) == [t |-> "str", s |-> s]
IntVal(i) == [t |-> "int", i |-> i]
ArrVal(px) == [t |-> "ndarray", px |-> px]

isinstance(v, ty) == v.t = ty


\* Variant for C6: a destination tested with "is not None" instead of by truth.
Truthy_is_not_none(v) == v.t # "NoneType"

\* Python truthiness of the values a destination path can take.
Truthy(v) ==
    CASE v.t = "NoneType" -> FALSE
      [] v.t = "str" -> v.s # ""
      [] v.t = "int" -> v.i # 0
      [] OTHER -> TRUE

Height(px) == Len(px)
Width(px) == IF Len(px) = 0 THEN 0 ELSE Len(px[1])

\* A pixel with three distinct channel values derived from its index.
Pixel(k) == <<k, k + 10, k + 20>>

\* The h x w image all of whose pixels differ.
MkImg(h, w) == [r \in 1..h |-> [c \in 1..w |-> Pixel((r - 1) * w + c)]]

InputImages == { MkImg(h, w) : h \in 1..MaxH, w \in 1..MaxW }

Paths == {"a.png", "b.png"}

\* The images img_mirror is applied to: every width, and a single row.
MirrorImages == { MkImg(MaxH, w) : w \in 1..MaxW } \cup {MkImg(1, MaxW)}

\* What a path can decode to when no call has been made yet, given the
\* images the files hold.
FileContents(images) == {NoneVal} \cup { ArrVal(px) : px \in images }

\* What a call leaves behind: the exception raised ("none" when it returned),
\* the value returned, the paths read from storage, and the storage after.
Returned(v, rd, st) == [exc |-> "none", val |-> v, reads |-> rd, st |-> st]
Raised(e, rd, st) == [exc |-> e, val |-> NoneVal, reads |-> rd, st |-> st]

(* --------------------------- library calls ----------------------------- *)

\* cv2.imread: the decoded image, or None.
imread(path, st) == IF path \in DOMAIN st THEN st[path] ELSE NoneVal

\* cv2.imwrite: the file at path now decodes to img.
imwrite(path, img, st) == [p \in DOMAIN st \cup {path} |-> IF p = path THEN img ELSE st[p]]


\* Variant for C5: the columns copied over one another from left to right in
\* the row itself, so that the right half is read after it was overwritten.
np_flip_in_place(px) ==
    [r \in 1..Height(px) |-> [c \in 1..Width(px) |->
        IF 2 * c <= Width(px) THEN px[r][Width(px) + 1 - c] ELSE px[r][c]]]

\* np.flip(img, axis=1): the columns of every row in reverse order.
np_flip(px) ==
    [r \in 1..Height(px) |-> [c \in 1..Width(px) |-> px[r][Width(px) + 1 - c]]]

\* cv2.resize(img, (width, height)): an image of the requested size, or
\* cv2.error when the requested size is empty.  The interpolated pixel values
\* are stood for by the source pixel at the scaled position.
cv2_resize(px, width, height) ==
    IF width <= 0 \/ height <= 0
    THEN [exc |-> "cv2.error", px |-> <<>>]
    ELSE [exc |-> "none",
          px |-> [r \in 1..height |-> [c \in 1..width |->
                    px[((r - 1) * Height(px)) \div height + 1]
                      [((c - 1) * Width(px)) \div width + 1]]]]

\* cv2.cvtColor(img, cv2.COLOR_BGR2RGB): first and third channel swapped.
cvtColor(px) ==
    [r \in 1..Height(px) |-> [c \in 1..Width(px) |->
        <<px[r][c][3], px[r][c][2], px[r][c][1]>>]]


\* Variant for C3: the division by 100 done on integers before the product.
IntPercent_divide_first(n, f) == (n \div 100) * f

\* int(n * f / 100) for n >= 0 and f > 0: the quotient truncated.
IntPercent(n, f) == (n * f) \div 100

(* ------------------------------ open_img ------------------------------- *)


\* Variant for C1: the result of imread returned without the None test.
open_img_unchecked(source, st) ==
    IF isinstance(source, "str")
    THEN Returned(imread(source.s, st), <<source.s>>, st)
    ELSE IF isinstance(source, "ndarray")
    THEN Returned(source, <<>>, st)
    ELSE IF source = NoneVal
    THEN Raised("ImageNotExistsError", <<>>, st)
    ELSE Raised("TypeError", <<>>, st)

\* Variant for C2: no branch of its own for None.
open_img_no_none_branch(source, st) ==
    IF isinstance(source, "str")
    THEN LET img == imread(source.s, st)
         IN  IF img = NoneVal
             THEN Raised("PathToImageIsIncorrectError", <<source.s>>, st)
             ELSE Returned(img, <<source.s>>, st)
    ELSE IF isinstance(source, "ndarray")
    THEN Returned(source, <<>>, st)
    ELSE Raised("TypeError", <<>>, st)

open_img(source, st) ==
    IF isinstance(source, "str")
    THEN LET img == imread(source.s, st)
         IN  IF img = NoneVal
             THEN Raised("PathToImageIsIncorrectError", <<source.s>>, st)
             ELSE Returned(img, <<source.s>>, st)
    ELSE IF isinstance(source, "ndarray")
    THEN Returned(source, <<>>, st)
    ELSE IF source = NoneVal
    THEN Raised("ImageNotExistsError", <<>>, st)
    ELSE Raised("TypeError", <<>>, st)

(* ----------------------------- rescale_img ----------------------------- *)


\* Variant for C4: the source opened before the factor is tested.
rescale_img_open_first(source, rescale_factor, st) ==
    LET o == open_img(source, st)
    IN  IF o.exc # "none"
        THEN o
        ELSE IF rescale_factor <= 0
        THEN Raised("ValueError", o.reads, st)
        ELSE LET r == cv2_resize(o.val.px,
                                 IntPercent(Width(o.val.px), rescale_factor),
                                 IntPercent(Height(o.val.px), rescale_factor))
             IN  IF r.exc # "none"
                 THEN Raised(r.exc, o.reads, st)
                 ELSE Returned(ArrVal(r.px), o.reads, st)

rescale_img(source, rescale_factor, st) ==
    IF rescale_factor <= 0
    THEN Raised("ValueError", <<>>, st)
    ELSE LET o == open_img(source, st)
         IN  IF o.exc # "none"
             THEN o
             ELSE LET width == IntPercent(Width(o.val.px), rescale_factor)
                      height == IntPercent(Height(o.val.px), rescale_factor)
                      r == cv2_resize(o.val.px, width, height)
                  IN  IF r.exc # "none"
                      THEN Raised(r.exc, o.reads, st)
                      ELSE Returned(ArrVal(r.px), o.reads, st)

(* ------------------------------ img_mirror ----------------------------- *)

img_mirror(source, destination_path, st) ==
    LET o == open_img(source, st)
    IN  IF o.exc # "none"
        THEN o
        ELSE LET img_mirrored == ArrVal(np_flip(o.val.px))
             IN  IF Truthy(destination_path)
                 THEN Returned(img_mirrored, o.reads,
                               imwrite(destination_path.s, img_mirrored, st))
                 ELSE Returned(img_mirrored, o.reads, st)

(* ---------------------- detect_and_draw_landmarks ---------------------- *)

\* An image array with the overlays drawn on it.
DrawnVal(px, drawn) == [t |-> "ndarray", px |-> px, drawn |-> drawn]

\* mp.solutions.holistic.Holistic(...): a new detector instance, which holds
\* none of the frames processed before it was made.
Holistic(history) == <<>>

\* draw.draw_landmarks: draws the overlay of a landmark list that is present,
\* and returns at once for one that is not.
draw_landmarks(drawn, present, name) == IF present THEN drawn \cup {name} ELSE drawn

\* results stands for what holistic.process(img) returns: which landmark
\* sets are present.
detect_and_draw_landmarks(px, results) ==
    IF results.pose_landmarks
    THEN DrawnVal(px,
            draw_landmarks(
                draw_landmarks(
                    draw_landmarks({}, results.pose_landmarks, "pose"),
                    results.left_hand_landmarks, "left_hand"),
                results.right_hand_landmarks, "right_hand"))
    ELSE DrawnVal(px, {})

(* -------------------------- drawing_points_img -------------------------- *)

drawing_points_img(source, rescale, results, st) ==
    LET o == open_img(source, st)
    IN  IF o.exc # "none"
        THEN o
        ELSE LET r == rescale_img(o.val, rescale, st)
             IN  IF r.exc # "none"
                 THEN Raised(r.exc, o.reads \o r.reads, st)
                 ELSE Returned(detect_and_draw_landmarks(cvtColor(r.val.px), results),
                               o.reads \o r.reads, st)

(* ------------------------- drawing_points_video ------------------------- *)


\* Variant for C7: the same exception whatever the source is.
OpenFailure_always_path(source) == "PathToVideoIsIncorrectError"

\* The exception of lines 100-104 for a capture that is not opened.
OpenFailure(source) ==
    IF isinstance(source, "str")
    THEN "PathToVideoIsIncorrectError"
    ELSE "CameraIndexIsIncorrect"

\* cap.read(): the next frame of the stream, or a failed read (at a frame
\* that cannot be decoded, and at the end of the stream).
cap_read(c) ==
    IF c.pos < Len(c.stream) /\ c.stream[c.pos + 1] # NoneVal
    THEN [success |-> TRUE, img |-> c.stream[c.pos + 1],
          cap |-> [c EXCEPT !.pos = c.pos + 1]]
    ELSE [success |-> FALSE, img |-> NoneVal,
          cap |-> [c EXCEPT !.pos = IF c.pos < Len(c.stream) THEN c.pos + 1 ELSE c.pos]]


\* Variant for C9: continue instead of break.
AfterFailedRead_continue == "loop"

\* Where the loop goes after a failed read: break.
AfterFailedRead == "done"

\* The image handed to the detection step for a frame read from the capture.
FrameToProcess(px, rescale) == cvtColor(px)

(* ------------------------------- inputs -------------------------------- *)

\* Sources that are no array: paths, None, and a value of another type.
OtherSources ==
    { StrVal(p) : p \in Paths } \cup {StrVal("missing.png"), NoneVal, IntVal(7)}

ImageSources == { ArrVal(px) : px \in InputImages } \cup OtherSources

MirrorSources == { ArrVal(px) : px \in MirrorImages } \cup OtherSources

RescaleFactors == {-50, 0, 1, 50, 100, 150}

DrawRescales == {0, 50, 100}

Results == [pose_landmarks : BOOLEAN, left_hand_landmarks : BOOLEAN,
            right_hand_landmarks : BOOLEAN]

VideoSources == {StrVal("v.mp4"), IntVal(0)}

VideoRescales == {50, 100}

Frames == {MkImg(MaxH, MaxW), MkImg(1, 2)}

\* The sequences of at most n read outcomes: a frame, or None for a failed read.
RECURSIVE StreamsUpTo(_)
StreamsUpTo(n) ==
    IF n = 0 THEN {<<>>}
    ELSE LET shorter == StreamsUpTo(n - 1)
         IN  shorter \cup { Append(s, f) : s \in shorter,
                                           f \in { ArrVal(px) : px \in Frames } \cup {NoneVal} }

\* cv2.VideoCapture(source): a capture that is not opened, or an opened one
\* over a stream of finitely many frames.
Captures ==
    {[opened |-> FALSE, stream |-> <<>>, pos |-> 0]}
        \cup { [opened |-> TRUE, stream |-> s, pos |-> 0] : s \in StreamsUpTo(MaxFrames) }

Destinations == {NoneVal, StrVal("")} \cup { StrVal(p) : p \in Paths }

(* ------------------------------- states -------------------------------- *)

NoCall == [op |-> "none"]

\* No call made yet; a.png holds one of the images or does not decode, and
\* b.png does not exist yet.
InitWith(images) ==
    /\ storage \in { st \in [Paths -> FileContents(images)] : st["b.png"] = NoneVal }
    /\ call = NoCall
    /\ ret = NoneVal
    /\ exc = "none"
    /\ reads = <<>>
    /\ orig = NoneVal
    /\ depth = 0
    /\ pc = "idle"
    /\ cap = NoneVal
    /\ steps = <<>>
    /\ nreads = 0
    /\ frame = NoneVal

Init == InitWith(InputImages)

MirrorInit == InitWith(MirrorImages)

VideoInit == InitWith({})

\* The state after a call of an image function with outcome o.
Finish(c, o) ==
    /\ call' = c
    /\ ret' = o.val
    /\ exc' = o.exc
    /\ reads' = o.reads
    /\ storage' = o.st

\* The image a source stands for before a call: what open_img yields for it.
Opened(source, st) == open_img(source, st).val

OpenImg ==
    \E source \in ImageSources :
        /\ Finish([op |-> "open_img", source |-> source], open_img(source, storage))
        /\ UNCHANGED <<orig, depth>>
        /\ UNCHANGED videoVars

RescaleImg ==
    \E source \in ImageSources, f \in RescaleFactors :
        /\ Finish([op |-> "rescale_img", source |-> source, rescale_factor |-> f],
                  rescale_img(source, f, storage))
        /\ UNCHANGED <<orig, depth>>
        /\ UNCHANGED videoVars

\* img_mirror on a fresh source.
ImgMirror ==
    \E source \in MirrorSources, dest \in Destinations :
        LET o == img_mirror(source, dest, storage)
        IN  /\ Finish([op |-> "img_mirror", source |-> source,
                       destination_path |-> dest], o)
            /\ orig' = IF o.exc = "none" THEN Opened(source, storage) ELSE NoneVal
            /\ depth' = IF o.exc = "none" THEN 1 ELSE 0
            /\ UNCHANGED videoVars

\* img_mirror on the image the previous img_mirror returned.
ImgMirrorAgain ==
    /\ call.op = "img_mirror"
    /\ exc = "none"
    /\ depth >= 1
    /\ depth < MaxChain
    /\ \E dest \in Destinations :
        LET o == img_mirror(ret, dest, storage)
        IN  /\ Finish([op |-> "img_mirror", source |-> ret,
                       destination_path |-> dest], o)
            /\ orig' = orig
            /\ depth' = IF o.exc = "none" THEN depth + 1 ELSE 0
            /\ UNCHANGED videoVars

DetectAndDraw ==
    \E px \in InputImages, results \in Results :
        /\ Finish([op |-> "detect_and_draw_landmarks", img |-> ArrVal(px),
                   results |-> results],
                  Returned(detect_and_draw_landmarks(px, results), <<>>, storage))
        /\ UNCHANGED <<orig, depth>>
        /\ UNCHANGED videoVars

DrawingPointsImg ==
    \E source \in ImageSources, rescale \in DrawRescales, results \in Results :
        /\ Finish([op |-> "drawing_points_img", source |-> source,
                   rescale |-> rescale, results |-> results],
                  drawing_points_img(source, rescale, results, storage))
        /\ UNCHANGED <<orig, depth>>
        /\ UNCHANGED videoVars

\* drawing_points_video up to its loop: the capture is made and checked.
VideoCall ==
    /\ pc # "loop"
    /\ \E source \in VideoSources, rescale \in VideoRescales, c \in Captures :
        /\ call' = [op |-> "drawing_points_video", source |-> source,
                    rescale |-> rescale]
        /\ cap' = c
        /\ steps' = <<>>
        /\ nreads' = 0
        /\ frame' = NoneVal
        /\ ret' = NoneVal
        /\ reads' = <<>>
        /\ IF ~c.opened
           THEN /\ exc' = OpenFailure(source)
                /\ pc' = "raised"
           ELSE /\ exc' = "none"
                /\ pc' = "loop"
        /\ UNCHANGED <<storage, orig, depth>>

\* One pass of the while loop of drawing_points_video.
LoopStep ==
    /\ pc = "loop"
    /\ IF ~cap.opened
       THEN /\ pc' = "done"
            /\ UNCHANGED <<cap, steps, nreads, frame>>
       ELSE LET rd == cap_read(cap)
            IN  /\ cap' = rd.cap
                /\ nreads' = nreads + 1
                /\ IF ~rd.success
                   THEN /\ pc' = AfterFailedRead
                        /\ frame' = rd.img
                        /\ steps' = steps
                   ELSE \E results \in Results :
                        LET img_rgb == FrameToProcess(rd.img.px, call.rescale)
                            img == detect_and_draw_landmarks(img_rgb, results)
                        IN  /\ frame' = img
                            /\ steps' = Append(steps,
                                   [read |-> nreads + 1, img |-> img_rgb,
                                    tracked |-> Holistic(steps), out |-> img])
                            /\ pc' = "loop"
    /\ UNCHANGED <<storage, call, ret, exc, reads, orig, depth>>

Next == OpenImg \/ RescaleImg

Spec == Init /\ [][Next]_vars

MirrorNext == ImgMirror \/ ImgMirrorAgain

MirrorSpec == MirrorInit /\ [][MirrorNext]_vars

DetectNext == DetectAndDraw \/ DrawingPointsImg

DetectSpec == Init /\ [][DetectNext]_vars

VideoNext == VideoCall \/ LoopStep

VideoSpec == VideoInit /\ [][VideoNext]_vars

\* The function runs on one thread and every call in the loop returns, so a
\* pass of the loop that can be taken is taken.
FairVideoSpec == VideoSpec /\ WF_vars(LoopStep)

(* ------------------------------- claims -------------------------------- *)

\* The pixels of the image a call's source stands for, given the storage
\* the call started from.
SrcPx(source, st) == IF source.t = "str" THEN st[source.s].px ELSE source.px

\* Whether a source is an image: an array, or a path that decodes as one.
IsImage(source, st) ==
    \/ source.t = "ndarray"
    \/ source.t = "str" /\ source.s \in DOMAIN st /\ st[source.s] # NoneVal

\* C1: open_img on a path string returns the non-null image the path decodes
\* to, raises PathToImageIsIncorrectError when the path does not decode, and
\* never returns None.
C1_OpenPath ==
    (call.op = "open_img" /\ call.source.t = "str") =>
        /\ IsImage(call.source, storage) =>
               exc = "none" /\ ret = storage[call.source.s] /\ ret # NoneVal
        /\ ~IsImage(call.source, storage) => exc = "PathToImageIsIncorrectError"
        /\ ~(exc = "none" /\ ret = NoneVal)

C1_Witness ==
    /\ call.op = "open_img"
    /\ call.source = StrVal("a.png")
    /\ exc = "none"
    /\ ret.t = "ndarray"

\* C2: open_img on a source that is no string returns the very array it was
\* given, raises ImageNotExistsError for None and TypeError for anything
\* else, and reads nothing from storage.
C2_OpenNonString ==
    (call.op = "open_img" /\ call.source.t # "str") =>
        /\ reads = <<>>
        /\ call.source.t = "ndarray" => exc = "none" /\ ret = call.source
        /\ call.source = NoneVal => exc = "ImageNotExistsError"
        /\ call.source.t \notin {"ndarray", "NoneType"} => exc = "TypeError"

C2_Witness ==
    /\ call.op = "open_img"
    /\ call.source = NoneVal
    /\ exc = "ImageNotExistsError"
    /\ reads = <<>>

\* C3 as stated: for every positive factor f and every source image of size
\* w x h, rescale_img returns an image of width floor(w*f/100) and height
\* floor(h*f/100).
C3_Original ==
    (/\ call.op = "rescale_img"
     /\ call.rescale_factor > 0
     /\ IsImage(call.source, storage)) =>
        /\ exc = "none"
        /\ Width(ret.px) =
               (Width(SrcPx(call.source, storage)) * call.rescale_factor) \div 100
        /\ Height(ret.px) =
               (Height(SrcPx(call.source, storage)) * call.rescale_factor) \div 100

\* C3 as amended: for every positive factor f and every source image of size
\* w x h with floor(w*f/100) >= 1 and floor(h*f/100) >= 1, rescale_img returns
\* an image of that width and height; when either is 0 it returns no image,
\* the error of cv2.resize reaches the caller.
C3_RescaleSize ==
    (/\ call.op = "rescale_img"
     /\ call.rescale_factor > 0
     /\ IsImage(call.source, storage)) =>
        LET w == (Width(SrcPx(call.source, storage)) * call.rescale_factor) \div 100
            h == (Height(SrcPx(call.source, storage)) * call.rescale_factor) \div 100
        IN  IF w >= 1 /\ h >= 1
            THEN exc = "none" /\ Width(ret.px) = w /\ Height(ret.px) = h
            ELSE exc = "cv2.error" /\ ret = NoneVal

C3_Witness ==
    /\ call.op = "rescale_img"
    /\ call.rescale_factor = 50
    /\ call.source.t = "ndarray"
    /\ Width(call.source.px) = 3
    /\ Height(call.source.px) = 2
    /\ exc = "none"
    /\ Width(ret.px) = 1
    /\ Height(ret.px) = 1

\* C4: rescale_img with a factor <= 0 raises ValueError before the source is
\* opened: also for an invalid path and for None, and nothing is read.
C4_NonPositiveFactor ==
    (call.op = "rescale_img" /\ call.rescale_factor <= 0) =>
        exc = "ValueError" /\ reads = <<>> /\ ret = NoneVal

C4_Witness ==
    /\ call.op = "rescale_img"
    /\ call.rescale_factor = 0
    /\ call.source = StrVal("missing.png")
    /\ exc = "ValueError"
    /\ reads = <<>>

\* C5: img_mirror without a destination path, applied to the image that
\* img_mirror returned, returns the original image: the same shape and the
\* same pixels.
C5_MirrorTwice ==
    (/\ call.op = "img_mirror"
     /\ exc = "none"
     /\ depth > 0
     /\ depth % 2 = 0
     /\ call.destination_path = NoneVal) =>
        /\ ret = orig
        /\ Height(ret.px) = Height(orig.px)
        /\ Width(ret.px) = Width(orig.px)

C5_Witness ==
    /\ call.op = "img_mirror"
    /\ exc = "none"
    /\ depth = 2
    /\ call.destination_path = NoneVal
    /\ Width(orig.px) = 3
    /\ call.source # orig
    /\ ret = orig

\* C6: a call of img_mirror that returns has returned the mirrored image;
\* with a destination path it has changed storage at that path alone, to
\* the mirrored image, and with None or "" it has left storage as it was.
C6_MirrorWrites ==
    [][(call'.op = "img_mirror" /\ exc' = "none") =>
        LET src == SrcPx(call'.source, storage)
            dest == call'.destination_path
        IN  /\ Height(ret'.px) = Height(src)
            /\ Width(ret'.px) = Width(src)
            /\ \A r \in 1..Height(src), c \in 1..Width(src) :
                   ret'.px[r][c] = src[r][Width(src) + 1 - c]
            /\ IF dest.t = "str" /\ dest.s # ""
               THEN /\ DOMAIN storage' = DOMAIN storage \cup {dest.s}
                    /\ storage'[dest.s] = ret'
                    /\ \A p \in DOMAIN storage \ {dest.s} : storage'[p] = storage[p]
               ELSE storage' = storage]_vars

C6_Witness ==
    /\ call.op = "img_mirror"
    /\ exc = "none"
    /\ call.source = StrVal("a.png")
    /\ call.destination_path = StrVal("b.png")
    /\ storage["b.png"] = ret
    /\ storage["a.png"] # ret

\* C7: drawing_points_video whose capture is not opened raises
\* PathToVideoIsIncorrectError for a string source and CameraIndexIsIncorrect
\* for any other, before a frame is read or a detection step is run.
C7_VideoOpenFailure ==
    (call.op = "drawing_points_video" /\ ~cap.opened) =>
        /\ pc = "raised"
        /\ call.source.t = "str" => exc = "PathToVideoIsIncorrectError"
        /\ call.source.t # "str" => exc = "CameraIndexIsIncorrect"
        /\ nreads = 0
        /\ steps = <<>>

C7_Witness ==
    /\ call.op = "drawing_points_video"
    /\ call.source = IntVal(0)
    /\ ~cap.opened
    /\ pc = "raised"
    /\ exc = "CameraIndexIsIncorrect"

\* C8: every frame drawing_points_video processes has rescale percent of the
\* width and height of the frame read from the video.
C8_VideoRescales ==
    call.op = "drawing_points_video" =>
        \A i \in 1..Len(steps) :
            LET read == cap.stream[steps[i].read].px
            IN  /\ Width(steps[i].img) = (Width(read) * call.rescale) \div 100
                /\ Height(steps[i].img) = (Height(read) * call.rescale) \div 100

\* The position of the first failed read of a stream: its first frame that
\* cannot be read, or the read past its end.
FirstFail(stream) ==
    IF \E i \in 1..Len(stream) : stream[i] = NoneVal
    THEN CHOOSE i \in 1..Len(stream) :
             /\ stream[i] = NoneVal
             /\ \A j \in 1..(i - 1) : stream[j] # NoneVal
    ELSE Len(stream) + 1

C9_Steps ==
    (call.op = "drawing_points_video" /\ cap.opened) =>
        /\ Len(steps) < FirstFail(cap.stream)
        /\ \A i \in 1..Len(steps) :
               /\ steps[i].read = i
               /\ steps[i].img = cvtColor(cap.stream[i].px)
               /\ steps[i].tracked = <<>>
        /\ pc = "loop" => Len(steps) = nreads
        /\ pc = "done" => /\ nreads = FirstFail(cap.stream)
                          /\ Len(steps) = FirstFail(cap.stream) - 1
        /\ pc \in {"loop", "done"}

\* C9: with an opened capture every frame read before the first failed read
\* goes to exactly one detection step, in stream order, by a detector that
\* holds no earlier frame; the loop ends at the first failed read, and on a
\* stream of finitely many frames the function ends.
C9_VideoLoop == [](C9_Steps) /\ ((pc = "loop") ~> (pc = "done"))

C9_Witness ==
    /\ call.op = "drawing_points_video"
    /\ pc = "done"
    /\ Len(cap.stream) = 2
    /\ cap.stream[2] = NoneVal
    /\ Len(steps) = 1
    /\ nreads = 2

\* The landmark sets present in a result of the detector.
Present(results) ==
    (IF results.pose_landmarks THEN {"pose"} ELSE {})
        \cup (IF results.left_hand_landmarks THEN {"left_hand"} ELSE {})
        \cup (IF results.right_hand_landmarks THEN {"right_hand"} ELSE {})

\* C10: detect_and_draw_landmarks draws the overlay of every landmark set
\* present in the detector's result and of no other; a hand that is present
\* is drawn whether or not the pose is present.
C10_DrawsEveryPresentSet ==
    call.op = "detect_and_draw_landmarks" => ret.drawn = Present(call.results)

====
